---- MODULE Spec2Model ----
(***************************************************************************)
(* Smart Variation Router: the deterministic visitor-to-variation hash      *)
(* (src/lib/variation.ts), the generated embed script                       *)
(* (src/lib/script-generator.ts), the script-serve endpoint                 *)
(* (src/app/api/s/[id]/route.ts), the tracking endpoint                     *)
(* (src/app/api/track/route.ts) and the project routes                      *)
(* (src/app/api/projects/[id]/route.ts) over the SQLite store               *)
(* (src/unnamed/part_001).                                                  *)
(*                                                                         *)
(* A JavaScript string is a sequence of UTF-16 code units (naturals below   *)
(* 65536).  A JavaScript number that holds a signed 32-bit value is an      *)
(* integer in -2^31 .. 2^31-1; an unsigned 32-bit value is a record         *)
(* [hi, lo] of its two 16-bit halves (value = hi * 65536 + lo).             *)
(***************************************************************************)
EXTENDS Integers, Sequences, FiniteSets, TLC

VARIABLES
    projects,   \* table projects: id -> [is_active]
    events,     \* table visitor_events: a set of rows
    env,        \* process.env.NEXT_PUBLIC_APP_URL (Null when unset)
    req,        \* the request handled last
    resp,       \* the response returned last
    recorded,   \* TRUE iff the request handled last inserted a visitor_events row
    assignLog,  \* results: every <<visitorId, projectId, result>> of a call of
                \* assignVariation; repeated: some pair was given twice
    call,       \* the last direct call of a pure function, with its result
    pending,    \* the requests in progress between two statements on the
                \* store, when several connections share the database
    \* one browser that loads pages which embed the generated script
    localStorage,   \* the item "optim_vid" of localStorage (Null when absent)
    pageView,       \* the number of the page view (a page load) in progress
    readyState,     \* document.readyState
    dcl,            \* the DOMContentLoaded event of the page: "pending",
                    \* "dispatching" (its listeners are being run) or "done"
    listeners,      \* the DOMContentLoaded listeners registered and not yet
                    \* run, in order: the project id of each init closure
    window,         \* the properties of window that the script touches
    rootVariation,  \* the attribute data-optim-variation of the root element
    elements,       \* the elements of the document, in document order:
                    \* [showFor, display], the attribute data-optim-show
                    \* (Null when absent) and style.display
    location,       \* the URL of the page: [path, search, hash]
    beacons,        \* the image requests this page has issued, in order
    readyEvents,    \* the details of the optimeleon:ready events dispatched
    execs,          \* every execution of a generated script in this page,
                    \* in order: [pid, readyState]
    inits,          \* every run of init in this page, in order: [pid,
                    \* readyState, dcl, raised], the state of the document
                    \* at the run and the call that threw in it ("none"
                    \* when no call threw)
    uncaught,       \* an exception has escaped from the script into the page
    reported,       \* [view, p, v, var] of every beacon of this browser, over
                    \* all its page views
    storageFailed   \* a localStorage access has thrown in this browser

\* the state of the server and of the direct calls
serverVars == <<projects, events, env, req, resp, recorded, assignLog, call,
                pending>>

\* the state of the browser
pageVars == <<localStorage, pageView, readyState, dcl, listeners, window,
              rootVariation, elements, location, beacons, readyEvents, execs,
              inits, uncaught, reported, storageFailed>>

vars == <<serverVars, pageVars>>

(***************************************************************************)
(* Bounds                                                                   *)
(***************************************************************************)
MaxStrLen == 4
MaxEvents == 2
MaxIdLen == 2
MaxExecs == 3
MaxPageViews == 2
MaxPending == 2
MaxElements == 2

(***************************************************************************)
(* Inputs                                                                   *)
(***************************************************************************)
\* code units of the strings hashed directly: ":", "a", U+4E2D and U+FFFF
Alphabet == {58, 97, 20013, 65535}

\* every string over Alphabet of at most MaxStrLen code units
Strs == UNION {[1 .. k -> Alphabet] : k \in 0 .. MaxStrLen}

\* "v_k2x9" and "v_m0aq7": visitor tokens as getVisitorId builds them
V1 == <<118, 95, 107, 50, 120, 57>>
V2 == <<118, 95, 109, 48, 97, 113, 55>>
VisitorIds == {V1, V2}

\* "proj_V1StGXR8_Z5j" and "proj_dhY-0q3Wm7Lk": the identifiers
\* generateProjectId can return in this model
ProjA == <<112, 114, 111, 106, 95,
           86, 49, 83, 116, 71, 88, 82, 56, 95, 90, 53, 106>>
ProjB == <<112, 114, 111, 106, 95,
           100, 104, 89, 45, 48, 113, 51, 87, 109, 55, 76, 107>>
ProjectIdPool == {ProjA, ProjB}

(***************************************************************************)
(* JavaScript values                                                        *)
(***************************************************************************)
\* null and undefined are not strings: they are written as one-element
\* sequences of a negative number, which no string (a sequence of code units) is
Null == <<-1>>
Undefined == <<-2>>
EmptyStr == << >>

\* ToBoolean of a value that is null or a string: null and "" are falsy
Truthy(x) == x /= Null /\ x /= EmptyStr

W16 == 256 * 256

\* bit i of a ^ b, at its place
XorBit(a, b, i) ==
    IF ((a \div (2 ^ i)) % 2) /= ((b \div (2 ^ i)) % 2) THEN 2 ^ i ELSE 0

\* a ^ b for two naturals below 2^16
Xor16(a, b) ==
    XorBit(a, b, 0) + XorBit(a, b, 1) + XorBit(a, b, 2) + XorBit(a, b, 3)
    + XorBit(a, b, 4) + XorBit(a, b, 5) + XorBit(a, b, 6) + XorBit(a, b, 7)
    + XorBit(a, b, 8) + XorBit(a, b, 9) + XorBit(a, b, 10) + XorBit(a, b, 11)
    + XorBit(a, b, 12) + XorBit(a, b, 13) + XorBit(a, b, 14) + XorBit(a, b, 15)

\* ToInt32(h * 33) for a signed 32-bit h: the product is exact in a double
\* (below 2^53), ToInt32 reduces it modulo 2^32 into -2^31 .. 2^31-1.
\* Computed by 16-bit halves so that no intermediate value leaves 32 bits.
Int32Times33(h) ==
    LET lo    == h % W16
        hi    == h \div W16
        lo33  == lo * 33
        nlo   == lo33 % W16
        carry == lo33 \div W16
        nhiU  == (hi * 33 + carry) % W16
        nhiS  == IF nhiU >= 32768 THEN nhiU - W16 ELSE nhiU
    IN  nhiS * W16 + nlo

\* x ^ c for a signed 32-bit x and a char code c (0 .. 65535): the high half
\* of c is zero, so only the low half of x changes
XorInt32(x, c) == (x \div W16) * W16 + Xor16(x % W16, c)

\* h >>> 0 : the unsigned 32-bit value with the same bits
ToUint32(h) == [hi |-> (h \div W16) % W16, lo |-> h % W16]

\* the signed value kept as is (a hash that is not coerced to unsigned)
SignedHalves(h) == [hi |-> h \div W16, lo |-> h % W16]

\* u % 4 for a number given by its halves; JavaScript's % takes the sign of
\* the dividend
JsRem4(u) ==
    IF u.hi >= 0 THEN u.lo % 4
    ELSE LET m == (4 - (u.lo % 4)) % 4 IN 0 - m

\* arr[i] of a JavaScript array: undefined outside 0 .. length-1
JsAt(arr, i) == IF i \in 0 .. (Len(arr) - 1) THEN arr[i + 1] ELSE Undefined

(***************************************************************************)
(* src/lib/variation.ts                                                     *)
(***************************************************************************)
RECURSIVE hashLoop(_, _)
\* the for loop of hashString, from the loop variables st = [i, hash] (i counts
\* from 1 here): hash = (hash * 33) ^ str.charCodeAt(i)
hashLoop(str, st) ==
    IF st.i > Len(str) THEN st.hash
    ELSE hashLoop(str, [i    |-> st.i + 1,
                        hash |-> XorInt32(Int32Times33(st.hash), str[st.i])])

hashString_signed(str) == SignedHalves(hashLoop(str, [i |-> 1, hash |-> 5381]))

hashString(str) == ToUint32(hashLoop(str, [i |-> 1, hash |-> 5381]))

\* ["A", "B", "C", "D"]
variations == << <<65>>, <<66>>, <<67>>, <<68>> >>

assignVariation_noSeparator(visitorId, projectId) ==
    JsAt(variations, JsRem4(hashString(visitorId \o projectId)))

\* an assignment that rotates with the number of stored events
assignVariation_stateful(visitorId, projectId) ==
    LET hash == hashString(visitorId \o <<58>> \o projectId)
    IN  JsAt(variations, (JsRem4(hash) + Cardinality(events)) % 4)

assignVariation(visitorId, projectId) ==
    LET combined == visitorId \o <<58>> \o projectId
        hash     == hashString(combined)
    IN  JsAt(variations, JsRem4(hash))

isValidVariation(value) ==
    \E i \in 1 .. Len(variations) : variations[i] = value

(***************************************************************************)
(* src/lib/script-generator.ts: the functions of the generated script       *)
(***************************************************************************)
RECURSIVE hashScriptLoop(_, _)
\* the for loop of hash(s), from the loop variables st = [i, h]:
\* h = (h * 33) ^ s.charCodeAt(i)
hashScriptLoop(s, st) ==
    IF st.i > Len(s) THEN st.h
    ELSE hashScriptLoop(s, [i |-> st.i + 1,
                            h |-> XorInt32(Int32Times33(st.h), s[st.i])])

hash(s) == ToUint32(hashScriptLoop(s, [i |-> 1, h |-> 5381]))

getVariation_noSeparator(vid, pid) ==
    JsAt(variations, JsRem4(hash(vid \o pid)))

getVariation(vid, pid) ==
    LET vars_ == variations
    IN  JsAt(vars_, JsRem4(hash(vid \o <<58>> \o pid)))

(***************************************************************************)
(* Direct calls of the pure functions                                       *)
(***************************************************************************)
NoCall == [op |-> "none"]

CallHashString(s) ==
    /\ call = NoCall
    /\ call' = [op |-> "hashString", str |-> s, out |-> hashString(s)]
    /\ UNCHANGED <<projects, events, env, req, resp, recorded, assignLog, pending, pageVars>>

\* the same pair given to the server-side reference and to the script
CallAssign(v, p) ==
    /\ call = NoCall
    /\ call' = [op |-> "assign", vid |-> v, pid |-> p,
                server |-> assignVariation(v, p),
                client |-> getVariation(v, p)]
    /\ UNCHANGED <<projects, events, env, req, resp, recorded, assignLog, pending, pageVars>>

\* the caller drops the result
Return ==
    /\ call /= NoCall
    /\ call' = NoCall
    /\ UNCHANGED <<projects, events, env, req, resp, recorded, assignLog, pending, pageVars>>

(***************************************************************************)
(* src/lib/script-generator.ts: generateEmbedScript                         *)
(***************************************************************************)
\* (function(){\n  var O=window.__OPTIMELEON__=window.__OPTIMELEON__||{};\n  if(O["
ScriptPart1 == <<
    40, 102, 117, 110, 99, 116, 105, 111, 110, 40, 41, 123, 10, 32, 32, 118,
    97, 114, 32, 79, 61, 119, 105, 110, 100, 111, 119, 46, 95, 95, 79, 80,
    84, 73, 77, 69, 76, 69, 79, 78, 95, 95, 61, 119, 105, 110, 100, 111, 119,
    46, 95, 95, 79, 80, 84, 73, 77, 69, 76, 69, 79, 78, 95, 95, 124, 124,
    123, 125, 59, 10, 32, 32, 105, 102, 40, 79, 91, 34 >>

\* "])return;\n  O["
ScriptPart2 == <<
    34, 93, 41, 114, 101, 116, 117, 114, 110, 59, 10, 32, 32, 79, 91, 34 >>

\* "]=true;\n  \n  var config={\n    projectId:"
ScriptPart3 == <<
    34, 93, 61, 116, 114, 117, 101, 59, 10, 32, 32, 10, 32, 32, 118, 97, 114,
    32, 99, 111, 110, 102, 105, 103, 61, 123, 10, 32, 32, 32, 32, 112, 114,
    111, 106, 101, 99, 116, 73, 100, 58, 34 >>

\* ",\n    api:"
ScriptPart4 == <<
    34, 44, 10, 32, 32, 32, 32, 97, 112, 105, 58, 34 >>

\* "\n  };\n  \n
ScriptPart5 == <<
    34, 10, 32, 32, 125, 59, 10, 32, 32, 10 >>

\* the rest of the template, from "function getVisitorId(){" to "})();": it
\* embeds neither parameter, and stands in the text as one item that is not
\* a code unit
ScriptRest == <<-3>>

generateEmbedScript(projectId, apiEndpoint) ==
    ScriptPart1 \o projectId \o ScriptPart2 \o projectId \o ScriptPart3
        \o projectId \o ScriptPart4 \o apiEndpoint \o ScriptPart5
        \o ScriptRest

\* code units of the strings given to generateEmbedScript directly: the
\* double quote, the backslash, the line feed and "a"
GenAlphabet == {34, 92, 10, 97}

\* every string over GenAlphabet of at most MaxIdLen code units
GenStrs == UNION {[1 .. k -> GenAlphabet] : k \in 0 .. MaxIdLen}

\* a direct call of generateEmbedScript
CallGenerate(id, api) ==
    /\ call = NoCall
    /\ call' = [op |-> "generate", projectId |-> id, apiEndpoint |-> api,
                out |-> generateEmbedScript(id, api)]
    /\ UNCHANGED <<projects, events, env, req, resp, recorded, assignLog, pending, pageVars>>

(***************************************************************************)
(* The store (src/unnamed/part_001) and the process environment             *)
(***************************************************************************)
\* "https://ab.io"
AppUrl == <<104, 116, 116, 112, 115, 58, 47, 47, 97, 98, 46, 105, 111>>

\* "http://localhost:3000"
DefaultAppUrl == <<
    104, 116, 116, 112, 58, 47, 47, 108, 111, 99, 97, 108, 104, 111, 115,
    116, 58, 51, 48, 48, 48 >>

apiEndpoint_default == DefaultAppUrl

\* process.env.NEXT_PUBLIC_APP_URL || "http://localhost:3000"
apiEndpoint == IF Truthy(env) THEN env ELSE DefaultAppUrl

\* SELECT ... FROM projects WHERE id = ? finds a row
ProjectExists(id) == id \in DOMAIN projects

\* the row it finds
SelectProject(id) == projects[id]

EventIds == {e.id : e \in events}

\* "evt_" and nanoid(12): event identifiers are numbered, and the smallest
\* unused number stands for every new identifier (an identifier already in
\* use makes the INSERT throw: fault "insert" of the tracking handler)
FreshEventId == CHOOSE n \in 1 .. (Cardinality(events) + 1) : n \notin EventIds

\* x.trim() of the strings used here: leading and trailing spaces removed
RECURSIVE TrimLeft(_)
TrimLeft(x) == IF x /= << >> /\ Head(x) = 32 THEN TrimLeft(Tail(x)) ELSE x

RECURSIVE TrimRight(_)
TrimRight(x) ==
    IF x /= << >> /\ x[Len(x)] = 32 THEN TrimRight(SubSeq(x, 1, Len(x) - 1))
    ELSE x

Trim(x) == TrimRight(TrimLeft(x))

(***************************************************************************)
(* src/app/api/s/[id]/route.ts                                              *)
(***************************************************************************)
\* /* Optimeleon: Project not found */
NotFoundScript == <<
    47, 42, 32, 79, 112, 116, 105, 109, 101, 108, 101, 111, 110, 58, 32, 80,
    114, 111, 106, 101, 99, 116, 32, 110, 111, 116, 32, 102, 111, 117, 110,
    100, 32, 42, 47 >>

\* /* Optimeleon: Project is inactive */
InactiveScript == <<
    47, 42, 32, 79, 112, 116, 105, 109, 101, 108, 101, 111, 110, 58, 32, 80,
    114, 111, 106, 101, 99, 116, 32, 105, 115, 32, 105, 110, 97, 99, 116,
    105, 118, 101, 32, 42, 47 >>

\* /* Optimeleon: Internal error */
InternalErrorScript == <<
    47, 42, 32, 79, 112, 116, 105, 109, 101, 108, 101, 111, 110, 58, 32, 73,
    110, 116, 101, 114, 110, 97, 108, 32, 101, 114, 114, 111, 114, 32, 42, 47 >>

\* new NextResponse(body, {status, headers})
NextResponse(body, status, headers) ==
    [status |-> status, body |-> body, headers |-> headers]

ServeNotFound ==
    NextResponse(NotFoundScript, 200,
        [ContentType  |-> "application/javascript",
         CacheControl |-> <<"no-cache", "no-store", "must-revalidate">>])

ServeInactive ==
    NextResponse(InactiveScript, 200,
        [ContentType  |-> "application/javascript",
         CacheControl |-> <<"no-cache", "no-store", "must-revalidate">>])

ServeActive(project) ==
    NextResponse(generateEmbedScript(project.id, apiEndpoint), 200,
        [ContentType  |-> "application/javascript",
         CacheControl |-> <<"public", "max-age=300">>,
         AccessControlAllowOrigin |-> "*"])

ServeCatch ==
    NextResponse(InternalErrorScript, 200,
        [ContentType  |-> "application/javascript",
         CacheControl |-> <<"no-cache">>])

\* where the handler can fail: the store throws while resolving the project
\* ("db"), or the generation of the script throws ("generate")
ServeFaults == {"none", "db", "generate"}

ServeResult_propagates(id, fault) ==
    IF fault = "db" THEN [ServeCatch EXCEPT !.status = 500]
    ELSE IF ~ProjectExists(id) THEN ServeNotFound
    ELSE LET project == SelectProject(id)
         IN  IF project.is_active /= 1 THEN ServeInactive
             ELSE IF fault = "generate" THEN [ServeCatch EXCEPT !.status = 500]
             ELSE ServeActive(project)

ServeResult_noActiveCheck(id, fault) ==
    IF fault = "db" THEN ServeCatch
    ELSE IF ~ProjectExists(id) THEN ServeNotFound
    ELSE IF fault = "generate" THEN ServeCatch
    ELSE ServeActive(SelectProject(id))

ServeResult(id, fault) ==
    IF fault = "db" THEN ServeCatch
    ELSE IF ~ProjectExists(id) THEN ServeNotFound
    ELSE LET project == SelectProject(id)
         IN  IF project.is_active /= 1 THEN ServeInactive
             ELSE IF fault = "generate" THEN ServeCatch
             ELSE ServeActive(project)

\* GET /api/s/[id]
ServeScript(id, fault) ==
    /\ req' = [ep |-> "serve", id |-> id, fault |-> fault]
    /\ resp' = ServeResult(id, fault)
    /\ recorded' = FALSE
    /\ UNCHANGED <<projects, events, env, assignLog, call, pending, pageVars>>

(***************************************************************************)
(* src/app/api/track/route.ts                                               *)
(***************************************************************************)
\* Buffer.from("R0lGODlhAQABAIAAAAAAAP///yH5BAEAAAAALAAAAAABAAEAAAIBRAA7",
\* "base64"): the 42 bytes of a 1x1 transparent GIF
PIXEL == <<
    71, 73, 70, 56, 57, 97, 1, 0, 1, 0, 128, 0, 0, 0, 0, 0, 255, 255, 255,
    33, 249, 4, 1, 0, 0, 0, 0, 44, 0, 0, 0, 0, 1, 0, 1, 0, 0, 2, 1, 68, 0,
    59 >>

TrackRejectedResponse ==
    NextResponse(PIXEL, 200,
        [ContentType  |-> "image/gif",
         CacheControl |-> <<"no-cache", "no-store", "must-revalidate">>])

TrackRecordedResponse ==
    NextResponse(PIXEL, 200,
        [ContentType  |-> "image/gif",
         CacheControl |-> <<"no-cache", "no-store", "must-revalidate">>,
         AccessControlAllowOrigin |-> "*"])

TrackCatchResponse ==
    NextResponse(PIXEL, 200,
        [ContentType  |-> "image/gif",
         CacheControl |-> <<"no-cache">>])

\* what the store does in one request: it works ("none"), it throws at the
\* SELECT ("select"), or it throws at the INSERT ("insert": a failed write, or
\* a new event identifier that is already a primary key)
TrackFaults == {"none", "select", "insert"}

\* request.headers.get(name) || null
HeaderOrNull(h) == IF Truthy(h) THEN h ELSE Null

\* a row whose identifier is the same in every call: a call that repeats a
\* stored visitor, project and variation yields the row already stored
EventRow_sameId(nid, projectId, visitorId, variation, userAgent, referrer) ==
    [id |-> 1, project_id |-> projectId, visitor_id |-> visitorId,
     variation |-> variation, user_agent |-> userAgent, referrer |-> referrer]

\* a row that stores the first symbol whatever the request claimed
EventRow_fixedVariation(nid, projectId, visitorId, variation, userAgent, referrer) ==
    [id |-> nid, project_id |-> projectId, visitor_id |-> visitorId,
     variation |-> variations[1], user_agent |-> userAgent,
     referrer |-> referrer]

\* the row of the INSERT INTO visitor_events (the timestamp column is left out)
EventRow(nid, projectId, visitorId, variation, userAgent, referrer) ==
    [id |-> nid, project_id |-> projectId, visitor_id |-> visitorId,
     variation |-> variation, user_agent |-> userAgent, referrer |-> referrer]

\* the return statement the handler reaches: "missing" (line 43), "invalid"
\* (line 54), "unknown" (line 70), "recorded" (line 100) or "catch" (line 112)
TrackPath_noProjectCheck(v, p, var, fault) ==
    IF ~Truthy(v) \/ ~Truthy(p) \/ ~Truthy(var) THEN "missing"
    ELSE IF ~isValidVariation(var) THEN "invalid"
    ELSE IF fault /= "none" THEN "catch"
    ELSE "recorded"

\* a handler that records for active projects only
TrackPath_requiresActive(v, p, var, fault) ==
    IF ~Truthy(v) \/ ~Truthy(p) \/ ~Truthy(var) THEN "missing"
    ELSE IF ~isValidVariation(var) THEN "invalid"
    ELSE IF fault = "select" THEN "catch"
    ELSE IF ~ProjectExists(p) THEN "unknown"
    ELSE IF SelectProject(p).is_active /= 1 THEN "unknown"
    ELSE IF fault = "insert" THEN "catch"
    ELSE "recorded"

\* a handler that recomputes the assignment and drops a call that claims
\* another variation
TrackPath_verifiesAssignment(v, p, var, fault) ==
    IF ~Truthy(v) \/ ~Truthy(p) \/ ~Truthy(var) THEN "missing"
    ELSE IF ~isValidVariation(var) THEN "invalid"
    ELSE IF var /= assignVariation(v, p) THEN "invalid"
    ELSE IF fault = "select" THEN "catch"
    ELSE IF ~ProjectExists(p) THEN "unknown"
    ELSE IF fault = "insert" THEN "catch"
    ELSE "recorded"

TrackPath(v, p, var, fault) ==
    IF ~Truthy(v) \/ ~Truthy(p) \/ ~Truthy(var) THEN "missing"
    ELSE IF ~isValidVariation(var) THEN "invalid"
    ELSE IF fault = "select" THEN "catch"
    ELSE IF ~ProjectExists(p) THEN "unknown"
    ELSE IF fault = "insert" THEN "catch"
    ELSE "recorded"

TrackResponse_status(path) ==
    IF path = "catch" THEN [TrackCatchResponse EXCEPT !.status = 500]
    ELSE IF path = "recorded" THEN TrackRecordedResponse
    ELSE TrackRejectedResponse

\* the response built at that return statement
TrackResponse(path) ==
    IF path = "recorded" THEN TrackRecordedResponse
    ELSE IF path = "catch" THEN TrackCatchResponse
    ELSE TrackRejectedResponse

\* GET /api/track?v=&p=&var=  (ua, ref: the user-agent and referer headers).
\* req.threw tells whether the store threw in this request.
Track(v, p, var, ua, ref, fault) ==
    LET path == TrackPath(v, p, var, fault)
    IN  /\ path = "recorded" => Cardinality(events) < MaxEvents
        /\ req' = [ep |-> "track", v |-> v, p |-> p, var |-> var,
                   threw |-> (path = "catch")]
        /\ resp' = TrackResponse(path)
        /\ recorded' = (path = "recorded")
        /\ events' = IF path = "recorded"
                     THEN events \cup {EventRow(FreshEventId, p, v, var,
                                           HeaderOrNull(ua), HeaderOrNull(ref))}
                     ELSE events
        /\ UNCHANGED <<projects, env, assignLog, call, pending, pageVars>>

(***************************************************************************)
(* src/app/api/projects/[id]/route.ts                                       *)
(***************************************************************************)
JsonResponse(body, status) == [status |-> status, body |-> body]

\* a generator that can return an identifier with a double quote: proj_"
NanoidProject_unsafe == ProjectIdPool \cup {<<112, 114, 111, 106, 95, 34>>}

\* generateProjectId: "proj_" and nanoid(12), an identifier of the pool
NanoidProject == ProjectIdPool

\* the body of a create request fails the validation of lines 264 and 268
CreateInvalid(name, domain) ==
    \/ ~Truthy(name) \/ Len(Trim(name)) = 0
    \/ ~Truthy(domain) \/ Len(Trim(domain)) = 0

\* POST /api/projects (the description and the two date columns are left out)
CreateProject(name, domain, nid) ==
    /\ req' = [ep |-> "create", collides |-> ProjectExists(nid)]
    /\ recorded' = FALSE
    /\ IF CreateInvalid(name, domain)
       THEN /\ resp' = JsonResponse("Name or domain is required", 400)
            /\ projects' = projects
       ELSE IF ProjectExists(nid)
       THEN \* the INSERT violates the primary key and throws
            /\ resp' = JsonResponse("Failed to create project", 500)
            /\ projects' = projects
       ELSE /\ resp' = JsonResponse(nid, 201)
            /\ projects' = [i \in DOMAIN projects \cup {nid} |->
                              IF i = nid
                              THEN [id |-> nid, name |-> Trim(name),
                                    domain |-> Trim(domain), is_active |-> 1]
                              ELSE projects[i]]
    /\ UNCHANGED <<events, env, assignLog, call, pending, pageVars>>

\* a statistics query without its WHERE clause
SelectStats_allProjects(rows, id) ==
    {[variation |-> v,
      count     |-> Cardinality({e \in rows : e.variation = v})] :
        v \in {e.variation : e \in rows}}

\* SELECT variation, COUNT(*) as count FROM visitor_events
\* WHERE project_id = ? GROUP BY variation, over the rows of visitor_events
SelectStats(rows, id) ==
    LET mine == {e \in rows : e.project_id = id}
    IN  {[variation |-> v,
          count     |-> Cardinality({e \in mine : e.variation = v})] :
            v \in {e.variation : e \in mine}}

\* variationCounts = {A: 0, B: 0, C: 0, D: 0} and totalVisitors = 0
ZeroStats ==
    [variationCounts |-> [v \in {variations[i] : i \in 1 .. Len(variations)}
                             |-> 0],
     totalVisitors   |-> 0]

RECURSIVE statsForEach(_, _)
\* stats.forEach: a group whose variation is a key of variationCounts sets
\* that count and adds to totalVisitors (the groups are distinct, so the
\* order of the rows does not matter)
statsForEach(stats, acc) ==
    IF stats = {} THEN acc
    ELSE LET s == CHOOSE x \in stats : TRUE
         IN  statsForEach(stats \ {s},
                 IF s.variation \in DOMAIN acc.variationCounts
                 THEN [variationCounts |->
                           [acc.variationCounts EXCEPT ![s.variation] = s.count],
                       totalVisitors |-> acc.totalVisitors + s.count]
                 ELSE acc)

\* the stats member of the result, over the rows of visitor_events
ProjectStats(rows, id) ==
    LET acc == statsForEach(SelectStats(rows, id), ZeroStats)
    IN  [totalVisitors |-> acc.totalVisitors,
         variations    |-> acc.variationCounts]

\* GET /api/projects/[id]: the project with its statistics (description,
\* dates and embedScript are left out); fault "db": the store throws
GetProject(id, fault) ==
    /\ req' = [ep |-> "stats", id |-> id, threw |-> (fault = "db")]
    /\ recorded' = FALSE
    /\ resp' = IF fault = "db"
               THEN JsonResponse("Failed to get project", 500)
               ELSE IF ~ProjectExists(id)
               THEN JsonResponse("Project not found", 404)
               ELSE LET project == SelectProject(id)
                    IN  JsonResponse(
                            [id       |-> project.id,
                             name     |-> project.name,
                             domain   |-> project.domain,
                             isActive |-> (project.is_active = 1),
                             stats    |-> ProjectStats(events, id)], 200)
    /\ UNCHANGED <<projects, events, env, assignLog, call, pending, pageVars>>

\* GET /api/projects: every project with its statistics (the order of the
\* list is left out, as the date columns are); fault "db": the store throws
ListProjects(fault) ==
    /\ req' = [ep |-> "list", threw |-> (fault = "db")]
    /\ recorded' = FALSE
    /\ resp' = IF fault = "db"
               THEN JsonResponse("Failed to list projects", 500)
               ELSE JsonResponse(
                        {[id       |-> projects[i].id,
                          name     |-> projects[i].name,
                          domain   |-> projects[i].domain,
                          isActive |-> (projects[i].is_active = 1),
                          stats    |-> ProjectStats(events, projects[i].id)] :
                            i \in DOMAIN projects}, 200)
    /\ UNCHANGED <<projects, events, env, assignLog, call, pending, pageVars>>

\* an update that also clears the events of the project
UpdateProject_resetsEvents(id, isActive) ==
    /\ req' = [ep |-> "update", id |-> id, isActive |-> isActive]
    /\ recorded' = FALSE
    /\ IF ~ProjectExists(id)
       THEN /\ resp' = JsonResponse("Project not found", 404)
            /\ UNCHANGED <<projects, events>>
       ELSE IF isActive = Undefined
       THEN /\ resp' = JsonResponse("No fields to update", 400)
            /\ UNCHANGED <<projects, events>>
       ELSE /\ resp' = JsonResponse(id, 200)
            /\ projects' = [projects EXCEPT ![id].is_active =
                              IF isActive = <<1>> THEN 1 ELSE 0]
            /\ events' = {e \in events : e.project_id /= id}
    /\ UNCHANGED <<env, assignLog, call, pending, pageVars>>

\* an update that answers 200 and leaves is_active as it was
UpdateProject_keepsActive(id, isActive) ==
    /\ req' = [ep |-> "update", id |-> id, isActive |-> isActive]
    /\ recorded' = FALSE
    /\ resp' = IF ~ProjectExists(id)
               THEN JsonResponse("Project not found", 404)
               ELSE IF isActive = Undefined
               THEN JsonResponse("No fields to update", 400)
               ELSE JsonResponse(id, 200)
    /\ UNCHANGED <<projects, events, env, assignLog, call, pending, pageVars>>

\* PUT /api/projects/[id] with a body that gives isActive, or nothing
\* (req.isActive is the member of the body)
UpdateProject(id, isActive) ==
    /\ req' = [ep |-> "update", id |-> id, isActive |-> isActive]
    /\ recorded' = FALSE
    /\ IF ~ProjectExists(id)
       THEN /\ resp' = JsonResponse("Project not found", 404)
            /\ projects' = projects
       ELSE IF isActive = Undefined
       THEN /\ resp' = JsonResponse("No fields to update", 400)
            /\ projects' = projects
       ELSE /\ resp' = JsonResponse(id, 200)
            /\ projects' = [projects EXCEPT ![id].is_active =
                              IF isActive = <<1>> THEN 1 ELSE 0]
    /\ UNCHANGED <<events, env, assignLog, call, pending, pageVars>>

\* a deletion that removes the project row alone
DeleteProject_noCascade(id) ==
    /\ req' = [ep |-> "delete", id |-> id]
    /\ recorded' = FALSE
    /\ IF ~ProjectExists(id)
       THEN /\ resp' = JsonResponse("Project not found", 404)
            /\ UNCHANGED <<projects, events>>
       ELSE /\ resp' = JsonResponse("success", 200)
            /\ events' = events
            /\ projects' = [i \in DOMAIN projects \ {id} |-> projects[i]]
    /\ UNCHANGED <<env, assignLog, call, pending, pageVars>>

\* DELETE /api/projects/[id]
DeleteProject(id) ==
    /\ req' = [ep |-> "delete", id |-> id]
    /\ recorded' = FALSE
    /\ IF ~ProjectExists(id)
       THEN /\ resp' = JsonResponse("Project not found", 404)
            /\ UNCHANGED <<projects, events>>
       ELSE /\ resp' = JsonResponse("success", 200)
            /\ events' = {e \in events : e.project_id /= id}
            /\ projects' = [i \in DOMAIN projects \ {id} |-> projects[i]]
    /\ UNCHANGED <<env, assignLog, call, pending, pageVars>>

(***************************************************************************)
(* The tracking and deletion handlers statement by statement, for servers   *)
(* that share the database file: every statement on the store is one step   *)
(***************************************************************************)
\* a connection that does not enforce foreign keys
ForeignKeys_off == FALSE

\* new Database(DB_PATH): the connection enforces the FOREIGN KEY clause of
\* visitor_events (no pragma of getDatabase turns it off)
ForeignKeys == TRUE

\* a request in progress: what it still has to run (pc) and its parameters
PendingTrack(v, p, var) ==
    [op |-> "track", p |-> p, v |-> v, var |-> var, pc |-> "insert"]

PendingDelete(id, pc) ==
    [op |-> "delete", p |-> id, v |-> Null, var |-> Null, pc |-> pc]

\* track GET up to SELECT id FROM projects WHERE id = ?: a request that fails
\* a check is answered at once, another one goes on to its INSERT
TrackSelect(v, p, var) ==
    LET path == TrackPath(v, p, var, "none")
    IN  /\ Cardinality(pending) < MaxPending
        /\ IF path = "recorded"
           THEN /\ pending' = pending \cup {PendingTrack(v, p, var)}
                /\ UNCHANGED <<req, resp, recorded>>
           ELSE /\ req' = [ep |-> "track", v |-> v, p |-> p, var |-> var,
                           threw |-> FALSE]
                /\ resp' = TrackResponse(path)
                /\ recorded' = FALSE
                /\ pending' = pending
        /\ UNCHANGED <<projects, events, env, assignLog, call, pageVars>>

\* track GET from the INSERT on: the INSERT throws when foreign keys are
\* enforced and the project row is gone, and the catch answers
TrackInsert(r, ua, ref) ==
    LET throws == ForeignKeys /\ ~ProjectExists(r.p)
    IN  /\ r \in pending /\ r.op = "track"
        /\ ~throws => Cardinality(events) < MaxEvents
        /\ pending' = pending \ {r}
        /\ req' = [ep |-> "track", v |-> r.v, p |-> r.p, var |-> r.var,
                   threw |-> throws]
        /\ resp' = TrackResponse(IF throws THEN "catch" ELSE "recorded")
        /\ recorded' = ~throws
        /\ events' = IF throws THEN events
                     ELSE events \cup {EventRow(FreshEventId, r.p, r.v, r.var,
                                           HeaderOrNull(ua), HeaderOrNull(ref))}
        /\ UNCHANGED <<projects, env, assignLog, call, pageVars>>

\* DELETE up to SELECT id FROM projects WHERE id = ?
DeleteSelect(id) ==
    /\ Cardinality(pending) < MaxPending
    /\ IF ProjectExists(id)
       THEN /\ pending' = pending \cup {PendingDelete(id, "events")}
            /\ UNCHANGED <<req, resp, recorded>>
       ELSE /\ req' = [ep |-> "delete", id |-> id]
            /\ resp' = JsonResponse("Project not found", 404)
            /\ recorded' = FALSE
            /\ pending' = pending
    /\ UNCHANGED <<projects, events, env, assignLog, call, pageVars>>

\* DELETE FROM visitor_events WHERE project_id = ?
DeleteEvents(r) ==
    /\ r \in pending /\ r.op = "delete" /\ r.pc = "events"
    /\ events' = {e \in events : e.project_id /= r.p}
    /\ pending' = (pending \ {r}) \cup {PendingDelete(r.p, "project")}
    /\ UNCHANGED <<projects, env, req, resp, recorded, assignLog, call,
                   pageVars>>

\* DELETE FROM projects WHERE id = ? and the answer; with foreign keys
\* enforced, ON DELETE CASCADE removes the rows that refer to the project
DeleteRow(r) ==
    /\ r \in pending /\ r.op = "delete" /\ r.pc = "project"
    /\ projects' = [i \in DOMAIN projects \ {r.p} |-> projects[i]]
    /\ events' = IF ForeignKeys /\ ProjectExists(r.p)
                 THEN {e \in events : e.project_id /= r.p}
                 ELSE events
    /\ pending' = pending \ {r}
    /\ req' = [ep |-> "delete", id |-> r.p]
    /\ resp' = JsonResponse("success", 200)
    /\ recorded' = FALSE
    /\ UNCHANGED <<env, assignLog, call, pageVars>>

(***************************************************************************)
(* src/lib/script-generator.ts: the generated script executed in a page     *)
(***************************************************************************)
\* the value true, written like null and undefined
JsTrue == <<-4>>

\* ToBoolean of undefined, null, a string or true
ToBoolean(x) == x \notin {Undefined, Null, EmptyStr}

\* {} : an object without properties; an object is a function from its
\* property names (strings) to their values
EmptyObject == [k \in {} |-> Undefined]

\* a read of a property that was never written
ObjGet_absent(o, k) == Undefined

\* o[k]
ObjGet(o, k) == IF k \in DOMAIN o THEN o[k] ELSE Undefined

\* o[k] = v
ObjSet(o, k, v) == [x \in DOMAIN o \cup {k} |-> IF x = k THEN v ELSE o[x]]

\* the property names "visitorId", "variation" and "projectId"
KeyVisitorId == <<118, 105, 115, 105, 116, 111, 114, 73, 100>>
KeyVariation == <<118, 97, 114, 105, 97, 116, 105, 111, 110>>
KeyProjectId == <<112, 114, 111, 106, 101, 99, 116, 73, 100>>

\* what can throw in one run of init, and the value thrown where the catch
\* block reads it: an Error object ("Error") or a value without properties
\* (null or undefined, "null")
Faults ==
    {[step |-> s, thrown |-> "Error"] :
        s \in {"none", "getItem", "setItem", "replaceState", "Image"}}
    \cup {[step |-> s, thrown |-> t] :
             s \in {"setAttribute", "dispatchEvent"}, t \in {"Error", "null"}}

\* a getVisitorId that never calls setItem
getVisitorId_noPersist(f, t1, t2) ==
    IF f.step = "getItem"
    THEN [id |-> t1, stored |-> localStorage, threw |-> TRUE]
    ELSE IF ToBoolean(localStorage)
    THEN [id |-> localStorage, stored |-> localStorage, threw |-> FALSE]
    ELSE [id |-> t1, stored |-> localStorage, threw |-> FALSE]

\* a getVisitorId whose catch block stores the token it generates
getVisitorId_storesInCatch(f, t1, t2) ==
    IF f.step = "getItem"
    THEN [id |-> t1, stored |-> t1, threw |-> TRUE]
    ELSE IF ToBoolean(localStorage)
    THEN [id |-> localStorage, stored |-> localStorage, threw |-> FALSE]
    ELSE IF f.step = "setItem"
    THEN [id |-> t2, stored |-> t2, threw |-> TRUE]
    ELSE [id |-> t1, stored |-> t1, threw |-> FALSE]

\* getVisitorId: the token, the stored item afterwards, and whether
\* localStorage threw; t1 and t2 are the tokens that the first and the second
\* "v_" + Date.now().toString(36) + Math.random()... would give
getVisitorId(f, t1, t2) ==
    IF f.step = "getItem"
    THEN [id |-> t1, stored |-> localStorage, threw |-> TRUE]
    ELSE IF ToBoolean(localStorage)
    THEN [id |-> localStorage, stored |-> localStorage, threw |-> FALSE]
    ELSE IF f.step = "setItem"
    THEN [id |-> t2, stored |-> localStorage, threw |-> TRUE]
    ELSE [id |-> t1, stored |-> t1, threw |-> FALSE]

\* String.prototype.indexOf: the first position (from 0) where t occurs in
\* s, or -1
IndexOf(s, t) ==
    LET at == {i \in 0 .. (Len(s) - Len(t)) : SubSeq(s, i + 1, i + Len(t)) = t}
    IN  IF at = {} THEN -1 ELSE CHOOSE i \in at : \A j \in at : i <= j

\* the first position (from 1) of the code unit c in s, or Len(s) + 1
FirstOf(s, c) ==
    LET at == {i \in 1 .. Len(s) : s[i] = c}
    IN  IF at = {} THEN Len(s) + 1 ELSE CHOOSE i \in at : \A j \in at : i <= j

\* the URL the browser makes of the text u: the fragment starts at the first
\* "#", the query at the first "?" before it
ParseUrl(u) ==
    LET h      == FirstOf(u, 35)
        before == SubSeq(u, 1, h - 1)
        q      == FirstOf(before, 63)
    IN  [path   |-> SubSeq(before, 1, q - 1),
         search |-> SubSeq(before, q, Len(before)),
         hash   |-> SubSeq(u, h, Len(u))]

\* window.location.href
Href(loc) == loc.path \o loc.search \o loc.hash

\* window.location.search: the query with its "?", or "" when it is empty
LocationSearch(loc) == IF Len(loc.search) <= 1 THEN EmptyStr ELSE loc.search

\* "variation="
VariationEq == <<118, 97, 114, 105, 97, 116, 105, 111, 110, 61>>

\* an applyVariation that catches what setAttribute throws
applyVariation_swallows(v, f) ==
    [threw  |-> FALSE,
     raised |-> IF f.step = "setAttribute" THEN "setAttribute" ELSE "none",
     root   |-> IF f.step = "setAttribute" THEN rootVariation ELSE v,
     els    |-> elements,
     loc    |-> location]

\* applyVariation(v): the root attribute, the elements and the URL
\* afterwards, whether the function threw, and the call that threw in it
applyVariation(v, f) ==
    IF f.step = "setAttribute"
    THEN [threw |-> TRUE, raised |-> "setAttribute", root |-> rootVariation,
          els |-> elements, loc |-> location]
    ELSE LET \* querySelectorAll("[data-optim-show]") and the test of line 65
             hides(el) == /\ el.showFor /= Null
                          /\ ToBoolean(el.showFor)
                          /\ IndexOf(el.showFor, v) = -1
             adds   == IndexOf(LocationSearch(location), VariationEq) = -1
             sep    == IF ToBoolean(LocationSearch(location))
                       THEN <<38>> ELSE <<63>>
             newUrl == Href(location) \o sep \o VariationEq \o v
         IN  [threw  |-> FALSE,
              raised |-> IF adds /\ f.step = "replaceState"
                         THEN "replaceState" ELSE "none",
              root   |-> v,
              els    |-> [i \in DOMAIN elements |->
                            IF hides(elements[i])
                            THEN [elements[i] EXCEPT !.display = "none"]
                            ELSE elements[i]],
              loc    |-> IF adds /\ f.step /= "replaceState"
                         THEN ParseUrl(newUrl) ELSE location]

\* init() of the script of project pid, whose variable O is the object O
init(O, pid, f, t1, t2) ==
    LET g   == getVisitorId(f, t1, t2)
        vid == g.id
    IN  \E variation \in {getVariation(vid, pid)} :
        LET exposed  == ObjSet(ObjSet(ObjSet(O, KeyVisitorId, vid),
                                      KeyVariation, variation),
                               KeyProjectId, pid)
            a        == applyVariation(variation, f)
            \* applyVariation returned
            applied  == ~a.threw
            \* the call that threw in this run
            raised   == IF g.threw THEN f.step
                        ELSE IF a.raised /= "none" THEN a.raised
                        ELSE IF applied /\ f.step \in {"Image", "dispatchEvent"}
                        THEN f.step
                        ELSE "none"
            \* track created its image
            tracked  == applied /\ f.step /= "Image"
            \* the ready event was dispatched
            notified == applied /\ f.step /= "dispatchEvent"
            \* the catch block of init ran
            caught   == ~applied \/ ~notified
        IN  /\ localStorage' = g.stored
            /\ storageFailed' = (storageFailed \/ g.threw)
            /\ window' = [__OPTIMELEON__ |-> exposed]
            /\ rootVariation' = a.root
            /\ elements' = a.els
            /\ location' = a.loc
            /\ beacons' = IF tracked
                          THEN Append(beacons,
                                   [v |-> vid, p |-> pid, var |-> variation])
                          ELSE beacons
            /\ reported' = IF tracked
                           THEN reported \cup
                                    {[view |-> pageView, p |-> pid,
                                      v |-> vid, var |-> variation]}
                           ELSE reported
            /\ readyEvents' = IF notified
                              THEN Append(readyEvents,
                                          [visitorId |-> vid,
                                           variation |-> variation,
                                           projectId |-> pid])
                              ELSE readyEvents
            /\ inits' = Append(inits, [pid |-> pid, readyState |-> readyState,
                                       dcl |-> dcl, raised |-> raised])
            \* console.warn("[Optimeleon] Error:", e.message) throws a
            \* TypeError when e is null or undefined
            /\ uncaught' = (uncaught \/ (caught /\ f.thrown = "null"))

\* a script that never defers init
IsLoading_never == FALSE

\* document.readyState === "loading"
IsLoading == readyState = "loading"

\* one execution of the script generated for project pid (script execution
\* runs to completion; none starts while the listeners of DOMContentLoaded
\* are being run)
ExecuteScript(pid, f, t1, t2) ==
    \* window.__OPTIMELEON__ || {} : the property is absent, or it is the
    \* object (truthy) that an earlier execution put there
    LET O      == IF "__OPTIMELEON__" \in DOMAIN window
                  THEN window.__OPTIMELEON__ ELSE EmptyObject
        marked == ObjSet(O, pid, JsTrue)
    IN  /\ dcl /= "dispatching"
        /\ Len(execs) < MaxExecs
        /\ execs' = Append(execs, [pid |-> pid, readyState |-> readyState])
        /\ IF ToBoolean(ObjGet(O, pid))
           THEN /\ window' = [__OPTIMELEON__ |-> O]
                /\ UNCHANGED <<listeners, localStorage, storageFailed,
                               rootVariation, elements, location, beacons,
                               reported, readyEvents, inits, uncaught>>
           ELSE IF IsLoading
           THEN /\ window' = [__OPTIMELEON__ |-> marked]
                /\ listeners' = Append(listeners, pid)
                /\ UNCHANGED <<localStorage, storageFailed, rootVariation,
                               elements, location, beacons, reported,
                               readyEvents, inits, uncaught>>
           ELSE /\ init(marked, pid, f, t1, t2)
                /\ UNCHANGED listeners
        /\ UNCHANGED <<serverVars, pageView, readyState, dcl>>

\* the parser reaches the end of the document
ParseEnd ==
    /\ readyState = "loading"
    /\ readyState' = "interactive"
    /\ UNCHANGED <<serverVars, localStorage, pageView, dcl, listeners, window,
                   rootVariation, elements, location, beacons, readyEvents,
                   execs, inits, uncaught, reported, storageFailed>>

\* the browser fires DOMContentLoaded
DOMContentLoaded ==
    /\ readyState = "interactive"
    /\ dcl = "pending"
    /\ dcl' = IF listeners = << >> THEN "done" ELSE "dispatching"
    /\ UNCHANGED <<serverVars, localStorage, pageView, readyState, listeners,
                   window, rootVariation, elements, location, beacons,
                   readyEvents, execs, inits, uncaught, reported,
                   storageFailed>>

\* the next listener registered by line 111 runs: init of that execution
RunListener(f, t1, t2) ==
    /\ dcl = "dispatching"
    /\ listeners /= << >>
    /\ init(window.__OPTIMELEON__, Head(listeners), f, t1, t2)
    /\ listeners' = Tail(listeners)
    /\ dcl' = IF Tail(listeners) = << >> THEN "done" ELSE "dispatching"
    /\ UNCHANGED <<serverVars, pageView, readyState, execs>>

\* "http://h/p": the URL of a page without query and fragment
PageUrl == <<104, 116, 116, 112, 58, 47, 47, 104, 47, 112>>

\* the browser loads another page that embeds the script: a new window and
\* document, the same localStorage
Navigate ==
    /\ dcl /= "dispatching"
    /\ pageView < MaxPageViews
    /\ pageView' = pageView + 1
    /\ readyState' = "loading"
    /\ dcl' = "pending"
    /\ listeners' = << >>
    /\ window' = EmptyObject
    /\ rootVariation' = Null
    /\ elements' = << >>
    /\ location' = ParseUrl(PageUrl)
    /\ beacons' = << >>
    /\ readyEvents' = << >>
    /\ execs' = << >>
    /\ inits' = << >>
    /\ uncaught' = FALSE
    /\ UNCHANGED <<serverVars, localStorage, reported, storageFailed>>

\* the first page has no element with data-optim-show, and the URL PageUrl
InitDocument ==
    /\ elements = << >>
    /\ location = ParseUrl(PageUrl)

\* a browser without a stored token opens its first page
InitBrowser ==
    /\ localStorage = Null
    /\ pageView = 1
    /\ readyState = "loading"
    /\ dcl = "pending"
    /\ listeners = << >>
    /\ window = EmptyObject
    /\ rootVariation = Null
    /\ beacons = << >>
    /\ readyEvents = << >>
    /\ execs = << >>
    /\ inits = << >>
    /\ uncaught = FALSE
    /\ reported = {}
    /\ storageFailed = FALSE

(***************************************************************************)
(* Calls of assignVariation between the requests                            *)
(***************************************************************************)
Assign(v, p) ==
    /\ assignLog' =
           [results  |-> assignLog.results \cup {<<v, p, assignVariation(v, p)>>},
            repeated |-> \/ assignLog.repeated
                         \/ \E a \in assignLog.results : a[1] = v /\ a[2] = p]
    /\ UNCHANGED <<projects, events, env, req, resp, recorded, call, pending, pageVars>>

(***************************************************************************)
(* Specifications                                                           *)
(***************************************************************************)
NoRequest == [ep |-> "none"]
NoResponse == [status |-> 0]

\* "n " and " d.io": a name and a domain that pass the validation
SomeName == <<110, 32>>
SomeDomain == <<32, 100, 46, 105, 111>>

\* "Z": a variation outside the four
VarZ == <<90>>

\* "UA": a user-agent header
SomeUserAgent == <<85, 65>>

\* "proj_x": an identifier that generateProjectId never returns
ProjUnknown == <<112, 114, 111, 106, 95, 120>>

\* empty tables, no request handled yet
InitServer ==
    /\ projects = [i \in {} |-> 0]
    /\ events = {}
    /\ env \in {Null, AppUrl}
    /\ req = NoRequest
    /\ resp = NoResponse
    /\ recorded = FALSE
    /\ assignLog = [results |-> {}, repeated |-> FALSE]
    /\ call = NoCall
    /\ pending = {}

Init ==
    /\ InitServer
    /\ InitBrowser
    /\ InitDocument

A == variations[1]

\* the tracking requests: well-formed ones (every variation for ProjA, one
\* for ProjB), and malformed ones
TrackRequests ==
    {[v |-> V1, p |-> ProjA, var |-> x] : x \in {variations[i] : i \in 1 .. 4}}
    \cup {[v |-> V1, p |-> ProjB, var |-> A]}
    \cup {[v |-> v, p |-> ProjA, var |-> A] : v \in {Null, EmptyStr}}
    \cup {[v |-> V1, p |-> p, var |-> A] : p \in {Null, EmptyStr}}
    \cup {[v |-> V1, p |-> ProjA, var |-> x] :
             x \in {Null, EmptyStr, VarZ, <<97>>, <<65, 66>>}}
    \cup {[v |-> Null, p |-> Null, var |-> Null]}

Next ==
    \/ \E id \in ProjectIdPool \cup {ProjUnknown}, fault \in ServeFaults :
           ServeScript(id, fault)
    \/ \E r \in TrackRequests, fault \in TrackFaults :
           Track(r.v, r.p, r.var, SomeUserAgent, EmptyStr, fault)
    \/ \E name \in {Undefined, <<32>>, SomeName}, domain \in {EmptyStr, SomeDomain},
          nid \in NanoidProject :
           CreateProject(name, domain, nid)
    \/ \E id \in ProjectIdPool, isActive \in {Undefined, <<1>>, <<0>>} :
           UpdateProject(id, isActive)
    \/ \E id \in ProjectIdPool : DeleteProject(id)

Spec == Init /\ [][Next]_vars

InitHash ==
    /\ Init
    /\ env = Null

NextHash ==
    \/ \E s \in Strs : CallHashString(s)
    \/ \E v \in VisitorIds \cup Strs, p \in ProjectIdPool \cup {EmptyStr, <<58>>} :
           CallAssign(v, p)
    \/ Return

SpecHash == InitHash /\ [][NextHash]_vars

\* assignVariation called between a few requests for one project
NextAssign ==
    \/ \E v \in VisitorIds, p \in ProjectIdPool : Assign(v, p)
    \/ CreateProject(SomeName, SomeDomain, ProjA)
    \/ \E fault \in {"none", "insert"} :
           Track(V1, ProjA, A, SomeUserAgent, EmptyStr, fault)
    \/ \E isActive \in {<<1>>, <<0>>} : UpdateProject(ProjA, isActive)
    \/ ServeScript(ProjA, "none")
    \/ DeleteProject(ProjA)

SpecAssign == Init /\ [][NextAssign]_vars

\* generateEmbedScript called with any identifier and any base URL
NextGen ==
    \/ \E id \in GenStrs \cup {ProjA}, api \in GenStrs \cup {AppUrl} :
           CallGenerate(id, api)
    \/ Return

SpecGen == InitHash /\ [][NextGen]_vars

\* one page view: scripts of two projects executed at any moment of the load
NextPage ==
    \/ \E pid \in ProjectIdPool, f \in Faults, t1 \in VisitorIds,
          t2 \in VisitorIds : ExecuteScript(pid, f, t1, t2)
    \/ ParseEnd
    \/ DOMContentLoaded
    \/ \E f \in Faults, t1 \in VisitorIds, t2 \in VisitorIds :
           RunListener(f, t1, t2)

SpecPage == InitHash /\ [][NextPage]_vars

\* the load of one page (init works, or fails at setAttribute) under the
\* scheduling of the browser: the parser
\* reaches the end of the document, DOMContentLoaded is then fired, and every
\* listener registered for it is run
LoadFaults ==
    {f \in Faults : f.step \in {"none", "setAttribute"} /\ f.thrown = "Error"}

NextLoad ==
    \/ \E pid \in ProjectIdPool, f \in LoadFaults, t \in VisitorIds :
           ExecuteScript(pid, f, t, t)
    \/ ParseEnd
    \/ DOMContentLoaded
    \/ \E f \in LoadFaults, t \in VisitorIds : RunListener(f, t, t)

\* a step in which the next listener is run: a RunListener step, whatever
\* init does in it
ListenerRuns ==
    /\ dcl = "dispatching"
    /\ listeners /= << >>
    /\ listeners' = Tail(listeners)

SpecLoad ==
    /\ InitHash
    /\ [][NextLoad]_vars
    /\ WF_vars(ParseEnd)
    /\ WF_vars(DOMContentLoaded)
    /\ WF_listeners(ListenerRuns)

\* what localStorage can do in one run of init
StorageFaults ==
    {f \in Faults : f.step \in {"none", "getItem", "setItem"}}

\* one browser over several page views
NextVisits ==
    \/ \E pid \in ProjectIdPool, f \in StorageFaults, t \in VisitorIds :
           ExecuteScript(pid, f, t, t)
    \/ ParseEnd
    \/ DOMContentLoaded
    \/ \E f \in StorageFaults, t \in VisitorIds : RunListener(f, t, t)
    \/ Navigate

SpecVisits == InitHash /\ [][NextVisits]_vars

\* the tracking requests of the store specification: two visitors, two
\* projects, two variations
StoreTrackRequests ==
    {[v |-> v, p |-> p, var |-> x] :
        v \in VisitorIds, p \in ProjectIdPool,
        x \in {variations[1], variations[2]}}

\* projects created and deleted, events recorded and statistics read
NextStore ==
    \/ \E nid \in NanoidProject : CreateProject(SomeName, SomeDomain, nid)
    \/ \E r \in StoreTrackRequests :
           Track(r.v, r.p, r.var, SomeUserAgent, EmptyStr, "none")
    \/ \E id \in ProjectIdPool \cup {ProjUnknown}, fault \in {"none", "db"} :
           GetProject(id, fault)
    \/ \E id \in ProjectIdPool : UpdateProject(id, <<0>>)
    \/ \E id \in ProjectIdPool : DeleteProject(id)

SpecStore == InitHash /\ [][NextStore]_vars

\* values of data-optim-show in a page: absent, "", "A", "B,C", "A,B,C,D"
ShowForValues ==
    {Null, EmptyStr, <<65>>, <<66, 44, 67>>, <<65, 44, 66, 44, 67, 44, 68>>}

\* the documents: up to MaxElements elements, all displayed
Documents ==
    UNION {[1 .. n -> {[showFor |-> a, display |-> "shown"] :
                          a \in ShowForValues}] : n \in 1 .. MaxElements}

\* the URLs of the page: PageUrl alone, and with "?a=1", "?variation=B",
\* "?xvariation=1", "#f" and "?a=1#f"
PageUrls ==
    {PageUrl \o x :
        x \in {EmptyStr,
               <<63, 97, 61, 49>>,
               <<63>> \o VariationEq \o <<66>>,
               <<63, 120>> \o VariationEq \o <<49>>,
               <<35, 102>>,
               <<63, 97, 61, 49, 35, 102>>}}

\* what can throw in one run of applyVariation after setAttribute
ApplyFaults ==
    {f \in Faults : f.step \in {"none", "replaceState"}}

\* the scripts of two projects in a page with elements that carry
\* data-optim-show, or with a URL that has a query or a fragment
InitApply ==
    /\ InitServer
    /\ env = Null
    /\ InitBrowser
    /\ \/ /\ elements \in Documents
          /\ location = ParseUrl(PageUrl)
       \/ /\ elements = << >>
          /\ location \in {ParseUrl(u) : u \in PageUrls}

NextApply ==
    \/ \E pid \in ProjectIdPool, f \in ApplyFaults, t \in VisitorIds :
           ExecuteScript(pid, f, t, t)
    \/ ParseEnd
    \/ DOMContentLoaded
    \/ \E f \in ApplyFaults, t \in VisitorIds : RunListener(f, t, t)

SpecApply == InitApply /\ [][NextApply]_vars

\* the tracking requests of the interface specification: one visitor, two
\* projects, two variations
ApiTrackRequests ==
    {[v |-> V1, p |-> p, var |-> x] :
        p \in ProjectIdPool, x \in {variations[1], variations[2]}}

\* every operation of the interface, with the failures of the store
NextApi ==
    \/ \E id \in ProjectIdPool \cup {ProjUnknown}, fault \in ServeFaults :
           ServeScript(id, fault)
    \/ \E r \in ApiTrackRequests, fault \in TrackFaults :
           Track(r.v, r.p, r.var, SomeUserAgent, EmptyStr, fault)
    \/ \E id \in ProjectIdPool, fault \in {"none", "db"} : GetProject(id, fault)
    \/ \E fault \in {"none", "db"} : ListProjects(fault)
    \/ \E nid \in NanoidProject : CreateProject(SomeName, SomeDomain, nid)
    \/ \E id \in ProjectIdPool, isActive \in {<<1>>, <<0>>} :
           UpdateProject(id, isActive)
    \/ \E id \in ProjectIdPool : DeleteProject(id)

SpecApi == InitHash /\ [][NextApi]_vars

\* tracking and deletion interleaved statement by statement, with projects
\* created and updated in between
NextRace ==
    \/ \E r \in ApiTrackRequests \cup {[v |-> V1, p |-> ProjA, var |-> VarZ]} :
           TrackSelect(r.v, r.p, r.var)
    \/ \E r \in pending : TrackInsert(r, SomeUserAgent, EmptyStr)
    \/ \E id \in ProjectIdPool : DeleteSelect(id)
    \/ \E r \in pending : DeleteEvents(r)
    \/ \E r \in pending : DeleteRow(r)
    \/ \E nid \in NanoidProject : CreateProject(SomeName, SomeDomain, nid)
    \/ \E id \in ProjectIdPool, isActive \in {<<1>>, <<0>>} :
           UpdateProject(id, isActive)

SpecRace == InitHash /\ [][NextRace]_vars

(***************************************************************************)
(* Properties                                                               *)
(***************************************************************************)
B == variations[2]
C == variations[3]
D == variations[4]

\* bit i of a natural
Bit(a, i) == (a \div (2 ^ i)) % 2

RECURSIVE SumXorBits(_, _, _)
SumXorBits(a, b, i) ==
    IF i < 0 THEN 0
    ELSE (IF Bit(a, i) /= Bit(b, i) THEN 2 ^ i ELSE 0) + SumXorBits(a, b, i - 1)

\* one step of the reference djb2-XOR hash on an unsigned 32-bit accumulator:
\* ((acc * 33) mod 2^32) XOR c
RefStep(acc, c) ==
    LET lo33 == acc.lo * 33
        mlo  == lo33 % W16
        mhi  == (acc.hi * 33 + (lo33 \div W16)) % W16
    IN  [hi |-> mhi, lo |-> SumXorBits(mlo, c, 15)]

RECURSIVE RefDjb2Xor(_)
\* the reference hash, from st = [rest, acc]: the characters still to read and
\* the accumulator so far
RefDjb2Xor(st) ==
    IF st.rest = << >> THEN st.acc
    ELSE RefDjb2Xor([rest |-> Tail(st.rest),
                     acc  |-> RefStep(st.acc, Head(st.rest))])

RefHash(s) == RefDjb2Xor([rest |-> s, acc |-> [hi |-> 0, lo |-> 5381]])

\* C1: every result of hashString equals the reference djb2-XOR hash of the
\* same string (5381, then ((acc * 33) mod 2^32) XOR code unit per character),
\* is an unsigned 32-bit value, and is 5381 for the empty string.
C1_HashStringIsReferenceDjb2 ==
    call.op = "hashString" =>
        /\ call.out = RefHash(call.str)
        /\ call.out.hi \in 0 .. (W16 - 1)
        /\ call.out.lo \in 0 .. (W16 - 1)
        /\ (call.str = EmptyStr => call.out = [hi |-> 0, lo |-> 5381])

\* C1 witness: a string of four or more code units whose hash has bit 31 set,
\* so that the 32-bit wrap and the final unsigned coercion both matter
C1_Witness ==
    /\ call.op = "hashString"
    /\ Len(call.str) >= 4
    /\ call.out.hi >= 32768

\* the symbol at index i of the ordered list A, B, C, D
SymbolAt(i) ==
    CASE i = 0 -> <<65>> [] i = 1 -> <<66>> [] i = 2 -> <<67>> [] i = 3 -> <<68>>

\* C2: assignVariation returns the symbol at index
\* hashString(visitorId + ":" + projectId) mod 4 of A, B, C, D; it is one of
\* the four symbols and never undefined.
C2_AssignIsHashMod4 ==
    call.op = "assign" =>
        /\ call.server =
               SymbolAt(hashString(call.vid \o <<58>> \o call.pid).lo % 4)
        /\ call.server \in {A, B, C, D}
        /\ call.server /= Undefined

\* C2 witness: "v_k2x9" and "proj_dhY-0q3Wm7Lk" hash to 300192886, index 2
C2_Witness ==
    /\ call.op = "assign"
    /\ call.vid = V1
    /\ call.pid = ProjB
    /\ call.server = C

C4_ScriptMatchesServer ==
    call.op = "assign" => call.client = call.server

\* C4 witness: "v_m0aq7" and "proj_V1StGXR8_Z5j" give D on both sides
C4_Witness ==
    /\ call.op = "assign"
    /\ call.vid = V2
    /\ call.pid = ProjA
    /\ call.client = D

\* the directives of a Cache-Control value
Directives(cc) == {cc[i] : i \in 1 .. Len(cc)}

\* a text that is one block comment and nothing else: it opens with "/*", it
\* ends with "*/", and no "*/" comes before its end
IsInertComment(t) ==
    /\ Len(t) >= 4
    /\ t[1] = 47 /\ t[2] = 42
    /\ t[Len(t) - 1] = 42 /\ t[Len(t)] = 47
    /\ \A i \in 3 .. (Len(t) - 2) : ~(t[i] = 42 /\ t[i + 1] = 47)

\* C5: every response of the script-serve endpoint has status 200: unknown,
\* inactive and active project, and a failure while resolving the project or
\* generating the script (the failure ends in a response, not an exception).
C5_ServeAlways200 ==
    req.ep = "serve" => resp.status = 200

\* C5 witness: the generation fails for an existing active project, and the
\* response is the internal-error placeholder
C5_Witness ==
    /\ req.ep = "serve"
    /\ req.fault = "generate"
    /\ ProjectExists(req.id)
    /\ projects[req.id].is_active = 1
    /\ resp.body = InternalErrorScript

\* C6: with a working store, script-serve returns the "not found" placeholder
\* for an unknown project and the "is inactive" placeholder for an existing
\* inactive one; the two texts differ, each is one inert comment, and both
\* responses carry a no-cache directive.
C6_Placeholders ==
    (req.ep = "serve" /\ req.fault /= "db") =>
        /\ ~ProjectExists(req.id) =>
               /\ resp.body = NotFoundScript
               /\ resp.body /= InactiveScript
               /\ IsInertComment(resp.body)
               /\ "no-cache" \in Directives(resp.headers.CacheControl)
        /\ (ProjectExists(req.id) /\ projects[req.id].is_active /= 1) =>
               /\ resp.body = InactiveScript
               /\ resp.body /= NotFoundScript
               /\ IsInertComment(resp.body)
               /\ "no-cache" \in Directives(resp.headers.CacheControl)

\* C6 witness: an existing project that an update made inactive is served
C6_Witness ==
    /\ req.ep = "serve"
    /\ req.fault = "none"
    /\ ProjectExists(req.id)
    /\ projects[req.id].is_active = 0
    /\ resp.body = InactiveScript

\* C7: for an existing active project (and no failure) the body is exactly
\* generateEmbedScript(project id, API base URL), the cache directive is
\* public with max-age 300, and the cross-origin header allows every origin.
C7_ActiveServesScript ==
    (/\ req.ep = "serve" /\ req.fault = "none"
     /\ ProjectExists(req.id) /\ projects[req.id].is_active = 1) =>
        /\ resp.body = generateEmbedScript(req.id,
                           IF env = Null THEN DefaultAppUrl ELSE env)
        /\ Directives(resp.headers.CacheControl) = {"public", "max-age=300"}
        /\ "AccessControlAllowOrigin" \in DOMAIN resp.headers
        /\ resp.headers["AccessControlAllowOrigin"] = "*"

\* C7 witness: ProjA is served with the configured base URL
C7_Witness ==
    /\ req.ep = "serve"
    /\ req.id = ProjA
    /\ env = AppUrl
    /\ resp.body = generateEmbedScript(ProjA, AppUrl)

\* C8: every response of the tracking endpoint has status 200, the fixed GIF
\* as its body and a no-cache directive, on every path.
C8_TrackAlwaysPixel ==
    req.ep = "track" =>
        /\ resp.status = 200
        /\ resp.body = PIXEL
        /\ "no-cache" \in Directives(resp.headers.CacheControl)

\* C8 witness: the store threw during a well-formed request
C8_Witness ==
    /\ req.ep = "track"
    /\ req.threw
    /\ isValidVariation(req.var)
    /\ resp.body = PIXEL

\* C9: of two tracking requests in a row, one that appended a row and one that
\* did not, the two responses (status, body, headers) are identical.
C9_ResponseHidesRecording ==
    [][(/\ req.ep = "track" /\ req'.ep = "track"
        /\ recorded /= recorded') => resp' = resp]_vars

\* a tracking request that must be rejected in a store with these projects
TrackRejected(r, projs) ==
    \/ r.v = Null \/ r.v = EmptyStr
    \/ r.p = Null \/ r.p = EmptyStr
    \/ r.var = Null \/ r.var = EmptyStr
    \/ r.var \notin {A, B, C, D}
    \/ r.p \notin DOMAIN projs

\* C10: a tracking call with a missing or empty visitor id, project id or
\* variation, with a variation outside A, B, C, D, or with the id of no
\* existing project creates no row and changes no row and no project.
C10_RejectedLeavesStore ==
    [][(req'.ep = "track" /\ TrackRejected(req', projects))
           => (events' = events /\ projects' = projects)]_vars

\* C10 witness: a call for a project that does not exist was rejected while
\* the store held rows of another project
C10_Witness ==
    /\ req.ep = "track"
    /\ req.p = ProjB
    /\ ~ProjectExists(ProjB)
    /\ isValidVariation(req.var)
    /\ ~recorded
    /\ events /= {}

\* C11: a tracking call with a non-empty visitor id, a variation of A, B, C, D
\* and the id of an existing project (the store not failing) appends exactly
\* one row; the row carries the visitor id, project id and variation of the
\* call and an event id that no stored row had; the rows stored before and the
\* projects are unchanged.
C11_AcceptedAppendsOneRow ==
    [][(/\ req'.ep = "track"
        /\ ~TrackRejected(req', projects)
        /\ ~req'.threw) =>
           /\ \E e \in events' \ events :
                  /\ events' = events \cup {e}
                  /\ e.visitor_id = req'.v
                  /\ e.project_id = req'.p
                  /\ e.variation = req'.var
                  /\ e.id \notin EventIds
           /\ Cardinality(events') = Cardinality(events) + 1
           /\ projects' = projects]_vars

\* C11 witness: a call that claimed B was recorded as a second row, next to a
\* row with another variation
C11_Witness ==
    /\ req.ep = "track"
    /\ recorded
    /\ req.var = B
    /\ \E e \in events, f \in events :
           /\ e.id /= f.id
           /\ e.variation = B /\ e.visitor_id = req.v /\ e.project_id = req.p
           /\ f.variation /= B

\* the rows of one visitor, project and variation
RowsOfTriple(rows, v, p, x) ==
    {e \in rows : e.visitor_id = v /\ e.project_id = p /\ e.variation = x}

\* C12: every accepted tracking call adds one row for its visitor, project and
\* variation and raises the project's count for that variation and its total
\* by one each, also when the same triple is already stored; and no request
\* but a deletion removes a row.  So k accepted calls with one triple leave k
\* rows and raise both numbers by k.
C12_NoDeduplication ==
    [][/\ (req'.ep = "track" /\ ~TrackRejected(req', projects) /\ ~req'.threw) =>
            /\ Cardinality(RowsOfTriple(events', req'.v, req'.p, req'.var))
                 = Cardinality(RowsOfTriple(events, req'.v, req'.p, req'.var)) + 1
            /\ ProjectStats(events', req'.p).variations[req'.var]
                 = ProjectStats(events, req'.p).variations[req'.var] + 1
            /\ ProjectStats(events', req'.p).totalVisitors
                 = ProjectStats(events, req'.p).totalVisitors + 1
       /\ (req'.ep /= "delete") => events \subseteq events'
      ]_vars

\* C12 witness: two rows of one triple are stored, and the statistics read
\* reports 2 for that variation and 2 in total
C12_Witness ==
    /\ req.ep = "stats"
    /\ resp.status = 200
    /\ Cardinality(RowsOfTriple(events, V1, req.id, A)) = 2
    /\ resp.body.stats.variations[A] = 2
    /\ resp.body.stats.totalVisitors = 2

\* the rows A, A, B of one project, and a row of another project
ExampleRows ==
    {EventRow(1, ProjA, V1, A, Null, Null), EventRow(2, ProjA, V2, A, Null, Null),
     EventRow(3, ProjA, V1, B, Null, Null), EventRow(4, ProjB, V1, C, Null, Null)}

\* C13: a statistics read of an existing project returns the four symbols,
\* each with the number of the project's rows of that variation, and a total
\* that is the sum of the four and the number of the project's rows; rows of
\* other projects are not counted.  The rows A, A, B give 3, 2, 1, 0, 0.
C13_StatsCountRows ==
    /\ (req.ep = "stats" /\ resp.status = 200) =>
           LET st   == resp.body.stats
               mine == {e \in events : e.project_id = req.id}
           IN  /\ DOMAIN st.variations = {A, B, C, D}
               /\ \A x \in {A, B, C, D} :
                      st.variations[x] =
                          Cardinality({e \in mine : e.variation = x})
               /\ st.totalVisitors = st.variations[A] + st.variations[B]
                                       + st.variations[C] + st.variations[D]
               /\ st.totalVisitors = Cardinality(mine)
    /\ ProjectStats(ExampleRows, ProjA) =
           [totalVisitors |-> 3,
            variations    |-> [x \in {A, B, C, D} |->
                                  IF x = A THEN 2 ELSE IF x = B THEN 1 ELSE 0]]

\* C13 witness: a project with one row is read while another project has a
\* row of another variation
C13_Witness ==
    /\ req.ep = "stats"
    /\ resp.status = 200
    /\ resp.body.stats.totalVisitors = 1
    /\ resp.body.stats.variations[A] = 1
    /\ resp.body.stats.variations[B] = 0
    /\ \E e \in events : e.project_id /= req.id /\ e.variation = B

\* C14: a successful deletion leaves no row of the deleted project and keeps
\* every row of the other projects, and a statistics read (the store not
\* failing) of an identifier that has no project answers 404.
C14_DeleteCascades ==
    [][/\ (req'.ep = "delete" /\ resp'.status = 200) =>
            /\ ~(req'.id \in DOMAIN projects')
            /\ \A e \in events' : e.project_id /= req'.id
            /\ events' = {e \in events : e.project_id /= req'.id}
       /\ (req'.ep = "stats" /\ ~req'.threw
             /\ ~(req'.id \in DOMAIN projects')) => resp'.status = 404
      ]_vars

\* C14 witness: the first row recorded is gone with its project, the row of
\* another project recorded after it remains, and the statistics read of the
\* deleted identifier answers 404
C14_Witness ==
    /\ req.ep = "stats"
    /\ ~req.threw
    /\ ~ProjectExists(req.id)
    /\ req.id \in ProjectIdPool
    /\ resp.status = 404
    /\ 1 \notin EventIds
    /\ \E e \in events : e.id = 2 /\ e.project_id /= req.id

\* the number of backslashes that stand directly before position i of a text
BackslashesBefore(t, i) ==
    CHOOSE k \in 0 .. (i - 1) :
        /\ \A j \in 1 .. k : t[i - j] = 92
        /\ (k = i - 1 \/ t[i - k - 1] /= 92)

\* the positions of the double quotes of a text that no backslash escapes
UnescapedQuotes(t) ==
    {i \in 1 .. Len(t) : t[i] = 34 /\ BackslashesBefore(t, i) % 2 = 0}

\* position i of a text is inside a string literal: an odd number of
\* unescaped double quotes stand before it
InLiteral(t, i) ==
    Cardinality({q \in UnescapedQuotes(t) : q < i}) % 2 = 1

\* C15: in every text that generateEmbedScript returns, no double quote,
\* backslash or line break of the project identifier or of the base URL stands
\* unescaped in a string literal: the only unescaped double quotes are the
\* eight that delimit the four literals of the template, and no line break
\* is inside a literal.
C15_EmbeddedValuesEscaped ==
    call.op = "generate" =>
        /\ Cardinality(UnescapedQuotes(call.out)) = 8
        /\ \A i \in 1 .. Len(call.out) :
               call.out[i] = 10 => ~InLiteral(call.out, i)

\* the number of items of a sequence that satisfy Test
CountIn(seq, Test(_)) == Cardinality({i \in 1 .. Len(seq) : Test(seq[i])})

\* the object window.__OPTIMELEON__ of the page ({} before any execution)
GlobalO ==
    IF "__OPTIMELEON__" \in DOMAIN window THEN window.__OPTIMELEON__
    ELSE EmptyObject

\* C16: in one page, however often the script of a project is executed and
\* whenever (also only while the document is loading), init is registered or
\* run at most once for the project: at most one run of init (one application
\* of the variation), one beacon and one ready event per project.
C16_InitOncePerProject ==
    \A pid \in ProjectIdPool :
        LET IsPid(x)  == x = pid
            HasPid(x) == x.pid = pid
            HasP(x)   == x.p = pid
            HasProjectId(x) == x.projectId = pid
        IN  /\ CountIn(inits, HasPid) + CountIn(listeners, IsPid) <= 1
            /\ CountIn(beacons, HasP) <= 1
            /\ CountIn(readyEvents, HasProjectId) <= 1

\* C16 witness: the script of one project was executed three times while the
\* document was loading, and its init has run once, from DOMContentLoaded,
\* with one beacon and one ready event
C16_Witness ==
    /\ Len(execs) = 3
    /\ \A i \in 1 .. 3 : execs[i].pid = ProjA /\ execs[i].readyState = "loading"
    /\ Len(inits) = 1
    /\ inits[1].pid = ProjA
    /\ inits[1].dcl = "dispatching"
    /\ Len(beacons) = 1
    /\ Len(readyEvents) = 1

\* C17: while localStorage has never thrown, every beacon of the browser
\* carries the token stored under "optim_vid", over all page views; so all
\* beacons of one project carry one visitor token and one variation.
C17_TokenPersists ==
    ~storageFailed =>
        /\ \A r \in reported : r.v = localStorage
        /\ \A r1 \in reported, r2 \in reported :
               r1.p = r2.p => (r1.v = r2.v /\ r1.var = r2.var)
        /\ (inits /= << >> => ToBoolean(localStorage))

\* C17 witness: with working storage, one project has reported in the first
\* and in the second page view
C17_Witness ==
    /\ ~storageFailed
    /\ pageView = 2
    /\ \E r1 \in reported, r2 \in reported :
           r1.view = 1 /\ r2.view = 2 /\ r1.p = r2.p

\* C18: no exception escapes from the script into the page, whatever step
\* of init fails and whatever value it throws.
C18_NoUncaughtException ==
    ~uncaught

\* C19: init never runs while the document is loading; an execution while
\* loading registers init for DOMContentLoaded and any other execution runs it
\* at once, so a project whose marker is set has init either registered or
\* run; and init of every project whose script was executed eventually runs.
C19_InitWhenParsed ==
    /\ [](\A i \in 1 .. Len(inits) : inits[i].readyState /= "loading")
    /\ [](\A pid \in ProjectIdPool :
             ToBoolean(ObjGet(GlobalO, pid)) =>
                 \/ \E i \in 1 .. Len(listeners) : listeners[i] = pid
                 \/ \E i \in 1 .. Len(inits) : inits[i].pid = pid)
    /\ [](listeners /= << >> => dcl /= "done")
    /\ \A pid \in ProjectIdPool :
           (\E i \in 1 .. Len(execs) : execs[i].pid = pid)
               ~> (\E i \in 1 .. Len(inits) : inits[i].pid = pid)

\* C19 witness: the script of one project was executed while loading and its
\* init ran from DOMContentLoaded; the script of the other was executed later
\* and its init ran at once
C19_Witness ==
    /\ Len(execs) = 2
    /\ execs[1].readyState = "loading"
    /\ execs[2].readyState = "interactive"
    /\ Len(inits) = 2
    /\ inits[1].pid = execs[1].pid /\ inits[1].dcl = "dispatching"
    /\ inits[2].pid = execs[2].pid /\ inits[2].dcl = "done"

\* C20: when init of one project runs in a page where another project has
\* exposed its assignment on window.__OPTIMELEON__, it leaves the visitor id,
\* variation and project id exposed by the other project as they are.
C20_ExposedDetailsKept ==
    [][(/\ Len(inits') = Len(inits) + 1
        /\ KeyProjectId \in DOMAIN GlobalO
        /\ GlobalO[KeyProjectId] /= inits'[Len(inits')].pid) =>
           /\ GlobalO'[KeyProjectId] = GlobalO[KeyProjectId]
           /\ GlobalO'[KeyVariation] = GlobalO[KeyVariation]
           /\ GlobalO'[KeyVisitorId] = GlobalO[KeyVisitorId]]_vars

SafeChars ==
    (65 .. 90) \cup (97 .. 122) \cup (48 .. 57) \cup {95, 45}

\* "proj_" followed by 12 safe characters
IsGeneratedId(id) ==
    /\ Len(id) = 17
    /\ SubSeq(id, 1, 5) = <<112, 114, 111, 106, 95>>
    /\ \A i \in 6 .. 17 : id[i] \in SafeChars

\* the text starts as the full script does
IsFullScript(body) ==
    /\ Len(body) > Len(ScriptPart1)
    /\ SubSeq(body, 1, Len(ScriptPart1)) = ScriptPart1

\* the text between O[" and the next double quote of a served script
EmbeddedId(body) ==
    LET from == Len(ScriptPart1) + 1
        to   == CHOOSE j \in from .. Len(body) :
                    /\ body[j] = 34
                    /\ \A k \in from .. (j - 1) : body[k] /= 34
    IN  SubSeq(body, from, to - 1)

C26_ServeReflectsState ==
    [][/\ (req'.ep = "create" /\ resp'.status = 201) =>
              /\ ~ProjectExists(resp'.body)
              /\ projects'[resp'.body].is_active = 1
       /\ (req'.ep = "update" /\ resp'.status = 200) =>
              projects'[req'.id].is_active = (IF req'.isActive = <<0>> THEN 0 ELSE 1)
       /\ (req'.ep = "delete" /\ resp'.status = 200) =>
              req'.id \notin DOMAIN projects'
       /\ req'.ep \notin {"create", "update", "delete"} => projects' = projects
       /\ (req'.ep = "serve" /\ req'.fault = "none") =>
              resp'.body =
                  IF req'.id \notin DOMAIN projects' THEN NotFoundScript
                  ELSE IF projects'[req'.id].is_active = 0 THEN InactiveScript
                  ELSE generateEmbedScript(req'.id, apiEndpoint)]_vars

\* C26 witness: a project that has recorded events was set inactive, and
\* its script request is answered with the inactive placeholder
C26_Witness ==
    /\ req.ep = "serve"
    /\ req.id = ProjB
    /\ ProjectExists(ProjB)
    /\ projects[ProjB].is_active = 0
    /\ \E e \in events : e.project_id = ProjB
    /\ resp.body = InactiveScript

\* C28: tracking checks that the project exists, not that it is active: a
\* valid call for an existing inactive project (the store not failing) adds
\* its row and raises the total and the count of its variation by one, while
\* a script request for the same project gets the inactive placeholder
C28_TrackIgnoresActivity ==
    [][(/\ req'.ep = "track"
        /\ ~req'.threw
        /\ Truthy(req'.v) /\ Truthy(req'.p) /\ isValidVariation(req'.var)
        /\ ProjectExists(req'.p)
        /\ projects[req'.p].is_active = 0) =>
           /\ recorded'
           /\ Cardinality(events') = Cardinality(events) + 1
           /\ ProjectStats(events', req'.p).totalVisitors =
                  ProjectStats(events, req'.p).totalVisitors + 1
           /\ ProjectStats(events', req'.p).variations[req'.var] =
                  ProjectStats(events, req'.p).variations[req'.var] + 1
           /\ ServeResult(req'.p, "none") = ServeInactive
           /\ projects' = projects]_vars

\* C28 witness: a call for the inactive ProjA was recorded
C28_Witness ==
    /\ req.ep = "track"
    /\ req.p = ProjA
    /\ recorded
    /\ ProjectExists(ProjA)
    /\ projects[ProjA].is_active = 0
    /\ \E e \in events : e.project_id = ProjA

\* C29: tracking records the variation the caller claims and never
\* recomputes it: a call that passes the checks (the store not failing) adds
\* a row with the variation of the request, also when that variation is not
\* assignVariation(visitor, project)
C29_ClaimedVariationRecorded ==
    [][(/\ req'.ep = "track"
        /\ ~req'.threw
        /\ Truthy(req'.v) /\ Truthy(req'.p) /\ isValidVariation(req'.var)
        /\ ProjectExists(req'.p)) =>
           /\ recorded'
           /\ \E e \in events' \ events :
                  /\ e.visitor_id = req'.v
                  /\ e.project_id = req'.p
                  /\ e.variation = req'.var
                  /\ events' = events \cup {e}]_vars

\* C29 witness: a recorded call whose variation is not the assigned one
C29_Witness ==
    /\ req.ep = "track"
    /\ recorded
    /\ \E e \in events :
           /\ e.visitor_id = req.v /\ e.project_id = req.p
           /\ e.variation = req.var
           /\ e.variation /= assignVariation(e.visitor_id, e.project_id)

\* C27: in every reachable state, whatever the interleaving of the
\* statements of tracking, creation, update and deletion requests, the
\* project_id of every row of visitor_events is the id of a row of projects
C27_NoOrphanRows ==
    \A e \in events : ProjectExists(e.project_id)

\* C27 witness: a tracking request passed its project check, the project was
\* deleted before its INSERT, and the INSERT threw: no row was added
C27_Witness ==
    /\ req.ep = "track"
    /\ req.threw
    /\ Truthy(req.p)
    /\ ~ProjectExists(req.p)
    /\ ~recorded
    /\ \E e \in events : e.project_id /= req.p

\* the last item of a sequence
Last(seq) == seq[Len(seq)]

C30_FailedApplyNotRetried ==
    \A i \in 1 .. Len(inits) :
        inits[i].raised = "setAttribute" =>
            LET pid == inits[i].pid
                ForPid(b) == b.p = pid
                ReadyForPid(e) == e.projectId = pid
                InitOfPid(x) == x.pid = pid
            IN  /\ CountIn(beacons, ForPid) = 0
                /\ CountIn(readyEvents, ReadyForPid) = 0
                /\ ToBoolean(ObjGet(GlobalO, pid))
                /\ CountIn(inits, InitOfPid) = 1
                /\ \A j \in 1 .. Len(listeners) : listeners[j] /= pid

\* C30 witness: the script of ProjA ran init at once and setAttribute threw;
\* the script was executed again in the page, and there is still no beacon,
\* no ready event and one run of init
C30_Witness ==
    /\ Len(execs) = 2
    /\ execs[1].pid = ProjA /\ execs[1].readyState = "interactive"
    /\ execs[2].pid = ProjA
    /\ Len(inits) = 1
    /\ inits[1].raised = "setAttribute"
    /\ beacons = << >>
    /\ readyEvents = << >>
    /\ ToBoolean(ObjGet(GlobalO, ProjA))

RECURSIVE SplitAt(_, _)
\* the pieces of s between the occurrences of the code unit c
SplitAt(s, c) ==
    LET k == FirstOf(s, c)
    IN  IF k > Len(s) THEN <<s>>
        ELSE <<SubSeq(s, 1, k - 1)>> \o SplitAt(SubSeq(s, k + 1, Len(s)), c)

\* the labels listed by a data-optim-show value ("" lists none)
ShowList(showFor) ==
    IF showFor = EmptyStr THEN {}
    ELSE {SplitAt(showFor, 44)[i] : i \in 1 .. Len(SplitAt(showFor, 44))}

\* C23: after an application step that did not throw, the root carries the
\* assigned variation, every element whose data-optim-show lists a subset of
\* A, B, C, D without the assigned variation (the empty list included) is
\* hidden, and no element whose list has the assigned variation is hidden by
\* the step
C23_ElementsShownForVariation ==
    [][(/\ Len(inits') = Len(inits) + 1
        /\ Last(inits').raised /= "setAttribute") =>
           LET v == ObjGet(window'.__OPTIMELEON__, KeyVariation)
           IN  /\ rootVariation' = v
               /\ \A i \in DOMAIN elements :
                      (/\ elements[i].showFor /= Null
                       /\ ShowList(elements[i].showFor) \subseteq {A, B, C, D}) =>
                          IF v \in ShowList(elements[i].showFor)
                          THEN elements'[i] = elements[i]
                          ELSE /\ elements'[i].display = "none"
                               /\ elements'[i].showFor = elements[i].showFor]_vars

\* the parameters of a query, in order: [name, value], the text before and
\* after the first "=" of each piece between "&"
QueryParams(search) ==
    IF Len(search) <= 1 THEN << >>
    ELSE LET pieces == SplitAt(SubSeq(search, 2, Len(search)), 38)
         IN  [i \in 1 .. Len(pieces) |->
                 LET k == FirstOf(pieces[i], 61)
                 IN  [name  |-> SubSeq(pieces[i], 1, k - 1),
                      value |-> SubSeq(pieces[i], k + 1, Len(pieces[i]))]]

\* C24: an application step in which nothing throws adds variation=<X> to
\* the query exactly when the query has no parameter named variation: then
\* the parameters become the old ones followed by variation=<X>, and path and
\* fragment stay; when the query has such a parameter the URL stays as it is
C24_VariationParameterAdded ==
    [][(/\ Len(inits') = Len(inits) + 1
        /\ Last(inits').raised = "none") =>
           LET v   == ObjGet(window'.__OPTIMELEON__, KeyVariation)
               old == QueryParams(location.search)
           IN  IF \E i \in 1 .. Len(old) : old[i].name = KeyVariation
               THEN location' = location
               ELSE /\ location'.path = location.path
                    /\ location'.hash = location.hash
                    /\ QueryParams(location'.search) =
                           Append(old, [name |-> KeyVariation, value |-> v])]_vars

====
